---- MODULE Spec2Model ----
(***************************************************************************)
(* Workflow coordination layer of github-automation: the status model      *)
(* (common/event_types.py), the tracker client's label operations          *)
(* (common/github_client.py), the bus client's connection state            *)
(* (common/mqtt_client.py) and the polling runtime and role logic of the   *)
(* four agents (the agents packages).                                      *)
(*                                                                         *)
(* Every polling thread is a record with a program counter; there is one   *)
(* action per function of the source, and the program counter selects the  *)
(* statement of that function the thread executes next.  A tracker (HTTP)  *)
(* call is one atomic step that either succeeds or raises.                 *)
(***************************************************************************)
EXTENDS Integers, Sequences, FiniteSets, TLC

----------------------------------------------------------------------------
(* Bounds of the model *)

\* issues the tracker can hold
NumIssues == 2
\* polling threads of one agent instance that can be alive at once
MaxThreads == 2
\* feedback comments / body updates the agents can write to one issue
MaxWrites == 1
\* clarification comments the Requirements agent can post on one issue
MaxQuestions == 2
\* label edits made by people on the tracker
MaxUserEdits == 1
\* agents of different roles that run against the tracker at once
MaxDeployed == 2

\* labels in a list handed to get_status_from_labels
MaxLabels == 3
\* transitions in a walk through the transition table
MaxWalk == 7
\* elements of a list or tuple in an event's payload
MaxItems == 1
\* messages that arrive at a bus client
MaxMessages == 2

Issues == 1..NumIssues
Slots == 1..MaxThreads

----------------------------------------------------------------------------
(* common/event_types.py : the status model *)

\* class IssueStatus, in declaration order
IssueStatus ==
  << "NEW", "WAITING_FOR_CLARIFICATION", "READY_FOR_DEV", "IN_PROGRESS",
     "READY_FOR_QA", "DONE", "BLOCKED" >>

Statuses == { IssueStatus[k] : k \in 1..Len(IssueStatus) }

\* a mapping in which two statuses share a label
STATUS_LABELS_shared ==
  [ s \in Statuses |->
      CASE s = "NEW" -> "needs-analysis"
        [] s = "WAITING_FOR_CLARIFICATION" -> "waiting_for_clarification"
        [] s = "READY_FOR_DEV" -> "ready_for_dev"
        [] s = "IN_PROGRESS" -> "in_progress"
        [] s = "READY_FOR_QA" -> "ready_for_qa"
        [] s = "DONE" -> "done"
        [] s = "BLOCKED" -> "in_progress" ]

\* the module-level dict STATUS_LABELS
STATUS_LABELS ==
  [ s \in Statuses |->
      CASE s = "NEW" -> "needs-analysis"
        [] s = "WAITING_FOR_CLARIFICATION" -> "waiting_for_clarification"
        [] s = "READY_FOR_DEV" -> "ready_for_dev"
        [] s = "IN_PROGRESS" -> "in_progress"
        [] s = "READY_FOR_QA" -> "ready_for_qa"
        [] s = "DONE" -> "done"
        [] s = "BLOCKED" -> "blocked" ]

StatusLabelNames == { STATUS_LABELS[s] : s \in Statuses }

\* StatusManager.get_label_for_status: STATUS_LABELS.get(status, "")
get_label_for_status(status) ==
  IF status \in DOMAIN STATUS_LABELS THEN STATUS_LABELS[status] ELSE ""

\* label_to_status = {v: k for k, v in STATUS_LABELS.items()}
\* (of two statuses with the same label, the one declared later stays)
label_to_status(label) ==
  LET ks == { k \in 1..Len(IssueStatus) : STATUS_LABELS[IssueStatus[k]] = label }
  IN  IssueStatus[CHOOSE k \in ks : \A j \in ks : j <= k]

\* a lookup that tests the first label of the list only
get_status_from_first_label(labels) ==
  IF labels # << >> /\ Head(labels) \in StatusLabelNames
    THEN label_to_status(Head(labels))
    ELSE "NEW"

\* StatusManager.get_status_from_labels: the first label of the LIST that is
\* a status label decides; NEW when there is none.
RECURSIVE get_status_from_labels(_)
get_status_from_labels(labels) ==
  IF labels = << >> THEN "NEW"
  ELSE IF Head(labels) \in StatusLabelNames THEN label_to_status(Head(labels))
  ELSE get_status_from_labels(Tail(labels))

\* a table that also lets a finished issue be worked on again
valid_transitions_reopen(current_status) ==
  CASE current_status = "NEW" -> { "WAITING_FOR_CLARIFICATION", "READY_FOR_DEV" }
    [] current_status = "WAITING_FOR_CLARIFICATION" -> { "READY_FOR_DEV" }
    [] current_status = "READY_FOR_DEV" -> { "IN_PROGRESS" }
    [] current_status = "IN_PROGRESS" -> { "READY_FOR_QA", "BLOCKED" }
    [] current_status = "BLOCKED" -> { "IN_PROGRESS" }
    [] current_status = "READY_FOR_QA" -> { "DONE", "IN_PROGRESS" }
    [] current_status = "DONE" -> { "READY_FOR_DEV" }
    [] OTHER -> { }

\* StatusManager.is_ready_for_transition: the dict valid_transitions
valid_transitions(current_status) ==
  CASE current_status = "NEW" -> { "WAITING_FOR_CLARIFICATION", "READY_FOR_DEV" }
    [] current_status = "WAITING_FOR_CLARIFICATION" -> { "READY_FOR_DEV" }
    [] current_status = "READY_FOR_DEV" -> { "IN_PROGRESS" }
    [] current_status = "IN_PROGRESS" -> { "READY_FOR_QA", "BLOCKED" }
    [] current_status = "BLOCKED" -> { "IN_PROGRESS" }
    [] current_status = "READY_FOR_QA" -> { "DONE", "IN_PROGRESS" }
    [] OTHER -> { }

is_ready_for_transition(current_status, target_status) ==
  target_status \in valid_transitions(current_status)

\* class StatusManager as line 315 of github_client.py expects it: with the
\* table as an attribute of the class
StatusManagerAttrsWithTable ==
  { "get_label_for_status", "get_status_from_labels", "is_ready_for_transition",
    "STATUS_LABELS" }

\* The attributes of class StatusManager: its three static methods and nothing
\* else.  STATUS_LABELS is a name of the module, not of the class.
StatusManagerAttrs ==
  { "get_label_for_status", "get_status_from_labels", "is_ready_for_transition" }

----------------------------------------------------------------------------
(* Configuration and the tracker's universe *)

Agents == { "requirements", "frontend", "backend", "qa" }

\* a label that is no status label
OtherLabel == "enhancement"

LabelNames == StatusLabelNames \cup { OtherLabel }

\* the order in which the tracker's API lists the labels of an issue
ApiLabelOrder ==
  << "blocked", "done", "enhancement", "in_progress", "needs-analysis",
     "ready_for_dev", "ready_for_qa", "waiting_for_clarification" >>

\* GitHubIssue.from_api: labels = [label['name'] for label in data['labels']]
from_api_labels(S) == SelectSeq(ApiLabelOrder, LAMBDA l : l \in S)

\* config.labels.new of the Requirements agent
labels_new == "needs-analysis"

\* config.labels.ready of each agent
labels_ready(a) ==
  CASE a = "requirements" -> "ready_for_dev"
    [] a = "frontend" -> "ready_for_dev"
    [] a = "backend" -> "ready_for_dev"
    [] a = "qa" -> "ready_for_qa"

\* class AgentLabels: the fields of config.labels
AgentLabelsFields == { "new", "ready", "in_progress", "blocked" }

\* the label a role's poll filters on (labels=[...] of its get_issues call)
poll_label(a) == IF a = "requirements" THEN labels_new ELSE labels_ready(a)

\* the agents that keep an in-flight dict _processing_issues
HasProcessingIssues(a) == a \in { "frontend", "backend", "qa" }

----------------------------------------------------------------------------
(* State *)

VARIABLES
  deployed,              \* the agent instances that exist in this run
  labels,                \* tracker: the label set of each issue
  agent_comments,        \* tracker: comments written by an agent, per issue
  user_comments,         \* tracker: does the issue carry a comment of a person
  issue_updates,         \* tracker: body updates made by update_issue, per issue
  user_edits,            \* label edits people have made so far
  running,               \* agent.running
  stop_event,            \* agent._stop_event (is_set)
  processing_issues,     \* the keys of agent._processing_issues
  clarification_issues,  \* the keys of agent._clarification_issues
  connected,             \* agent.mqtt.connected
  loop_running,          \* agent.mqtt.client: the network loop thread is alive
  session,               \* agent.mqtt.client: its session with the broker
  transport_subs,        \* the topics subscribed with the broker in that session
  resub,                 \* _on_connect: where its for loop over subscriptions is
  th,                    \* the polling threads: th[<<agent, slot>>]
  subscriptions,         \* agent.mqtt.subscriptions: topic -> callback
  delivered,             \* agent.mqtt: what _on_message did with each message that
                         \* arrived, in order: the callback invoked and its event
  announced,             \* per agent: the events announcing a completed step that
                         \* its polling threads have handed to mqtt.publish
  call                   \* the last call of a function of event_types.py, or of
                         \* MQTTClient on the main thread: its name, its
                         \* arguments and what it did

vars ==
  << deployed, labels, agent_comments, user_comments, issue_updates, user_edits,
     running, stop_event, processing_issues, clarification_issues, connected,
     loop_running, session, transport_subs, resub, th, subscriptions, delivered,
     announced, call >>

\* the state the agents' polling runtime neither reads nor writes
otherVars == << subscriptions, delivered, call, transport_subs, resub >>

trackerVars == << labels, agent_comments, user_comments, issue_updates, user_edits >>
lifecycleVars == << running, stop_event >>
mqttVars == << connected, loop_running, session >>
setVars == << processing_issues, clarification_issues >>

Threads == Agents \X Slots

\* no function of event_types.py has been called yet
NoCall == [ fn |-> "none", args |-> << >>, result |-> "none" ]

\* _on_connect is not inside its for loop (active: it is; visited: the topics
\* the loop has been through; size: the size the dict had when the loop's
\* iterator was made, 0 before that)
NoResub == [ active |-> FALSE, visited |-> { }, size |-> 0 ]

\* a slot without a thread
NoThread ==
  [ pc |-> "none", issues |-> << >>, issue |-> 0, status |-> "none",
    site |-> "none", exc |-> "none", current_labels |-> << >>,
    labels_to_remove |-> << >> ]

Th(a, t) == th[<< a, t >>]

Alive(a, t) == Th(a, t).pc # "none"

\* the thread's locals once it is done with an item
Cleared(r) ==
  [ r EXCEPT !.issue = 0, !.status = "none", !.site = "none", !.exc = "none",
             !.current_labels = << >>, !.labels_to_remove = << >> ]

\* the exception is not caught in the for loop and ends the thread
NextItem_uncaught(r) == NoThread

\* back to the head of the for loop of _process_issues
NextItem(r) == [ Cleared(r) EXCEPT !.pc = "iter" ]

SetTh(a, t, r) == th' = [ th EXCEPT ![<< a, t >>] = r ]

\* An exception of kind exc is raised in the thread; the handler that catches it
\* runs as the thread's next step.
Raise(a, t, exc) ==
  SetTh(a, t, [ Th(a, t) EXCEPT !.pc = "except", !.exc = exc ])

\* the exceptions a failed tracker request ends in: a RequestException of
\* _request, or the use of the None that get_issue returns on an HTTPError
TrackerErrors == { "RequestException", "NoneType.labels" }

\* Is the thread inside the try of FrontendAgent/BackendAgent._process_issue?
\* (the statements after the first set_status_label call)
InTry(r) == r.site \in { "try", "post" }

----------------------------------------------------------------------------
(* start / stop / _poll_loop : the same code in the four agents *)

FreeSlots(a) == { t \in Slots : ~Alive(a, t) }

\* what client.publish can do with a message: take it (rc = MQTT_ERR_SUCCESS),
\* refuse it (another rc), raise
PublishOutcomes == { "success", "rc_error", "exception" }

\* a publish that does not test self.connected
MQTTClient_publish_unguarded(flag, open, outcome) ==
  [ flag |-> flag, handed |-> TRUE,
    ret |-> open /\ outcome = "success", raised |-> "none" ]

\* a publish without its try/except
MQTTClient_publish_uncaught(flag, open, outcome) ==
  [ flag |-> flag, handed |-> flag,
    ret |-> flag /\ open /\ outcome = "success",
    raised |-> IF flag /\ outcome = "exception" THEN "Exception" ELSE "none" ]

\* MQTTClient.publish and publish_to_topic, for self.connected = flag, a session
\* that is open or not, and the outcome of client.publish:
\*   try:
\*       if not self.connected: return False
\*       payload = event.to_json()
\*       result = self.client.publish(topic, payload, qos=1)
\*       return result.rc == mqtt.MQTT_ERR_SUCCESS
\*   except Exception as e: return False
\* handed: was client.publish called; ret: the value returned; raised: the
\* exception that leaves the call.  Without an open session client.publish
\* answers MQTT_ERR_NO_CONN.
MQTTClient_publish(flag, open, outcome) ==
  [ flag |-> flag, handed |-> flag,
    ret |-> flag /\ open /\ outcome = "success", raised |-> "none" ]

\* MQTTClient.connect, for self.connected = flag and client.connect going well
\* or raising:
\*   try: ...; self.client.connect(host, port, 60); self.client.loop_start()
\*        return True
\*   except Exception as e: return False
\* opened: did client.connect open a session (whatever the flag says)
MQTTClient_connect(flag, ok) ==
  [ flag |-> flag, opened |-> ok, ret |-> ok, raised |-> "none" ]

\* the record of a call of MQTTClient
BusCall(fn, a, arg, did) == [ fn |-> fn, args |-> << a, arg >>, result |-> did ]

\* start(): mqtt.connect() (client.connect + loop_start, False on an exception),
\* publish AGENT_STARTED, running = True, _stop_event.clear(), a new thread on
\* _poll_loop.  No test of self.running.  The network loop thread started by
\* connect() may run _on_connect before publish reads self.connected (connack);
\* the agents have no subscriptions for it to go through.
start(a) ==
  /\ a \in deployed
  /\ FreeSlots(a) # { }
  /\ \E connect_ok \in BOOLEAN, connack \in BOOLEAN, outcome \in PublishOutcomes :
       LET c == MQTTClient_connect(connected[a], connect_ok)
           early == c.opened /\ connack /\ DOMAIN subscriptions[a] = { }
           flag == connected[a] \/ early
           open == IF c.opened THEN early ELSE session[a] = "open"
           p == MQTTClient_publish(flag, open, outcome)
       IN  /\ loop_running' = [ loop_running EXCEPT ![a] = @ \/ c.opened ]
           /\ connected' = [ connected EXCEPT ![a] = flag ]
           /\ session' = [ session EXCEPT ![a] =
                             IF ~c.opened THEN @ ELSE IF early THEN "open" ELSE "opening" ]
           /\ transport_subs' = [ transport_subs EXCEPT ![a] = IF c.opened THEN { } ELSE @ ]
           /\ call' = BusCall("publish", a, "AGENT_STARTED", p)
  /\ running' = [ running EXCEPT ![a] = TRUE ]
  /\ stop_event' = [ stop_event EXCEPT ![a] = FALSE ]
  /\ LET t == CHOOSE s \in FreeSlots(a) : \A u \in FreeSlots(a) : s <= u
     IN  SetTh(a, t, [ NoThread EXCEPT !.pc = "loop" ])
  /\ UNCHANGED << deployed, subscriptions, delivered, resub, trackerVars, setVars, announced >>

\* stop(): running = False, _stop_event.set(), publish AGENT_STOPPED,
\* mqtt.disconnect() (loop_stop, client.disconnect, connected = False).
\* The polling thread is not joined.
stop(a) ==
  /\ a \in deployed
  /\ ~resub[a].active
  /\ running' = [ running EXCEPT ![a] = FALSE ]
  /\ stop_event' = [ stop_event EXCEPT ![a] = TRUE ]
  /\ call' = BusCall("disconnect", a, "none", "none")
  /\ loop_running' = [ loop_running EXCEPT ![a] = FALSE ]
  /\ connected' = [ connected EXCEPT ![a] = FALSE ]
  /\ session' = [ session EXCEPT ![a] = "none" ]
  /\ transport_subs' = [ transport_subs EXCEPT ![a] = { } ]
  /\ UNCHANGED << deployed, subscriptions, delivered, resub, trackerVars, setVars, th,
                  announced >>

\* MQTTClient._on_connect, called on the network loop thread when the broker has
\* answered the CONNECT of a session (rc = 0):
\*   self.connected = True
\*   for topic in self.subscriptions: ...     (continued in _on_connect_loop)
_on_connect(a) ==
  /\ loop_running[a]
  /\ session[a] = "opening"
  /\ ~resub[a].active
  /\ connected' = [ connected EXCEPT ![a] = TRUE ]
  /\ session' = [ session EXCEPT ![a] = "open" ]
  /\ resub' = [ resub EXCEPT ![a] =
                  IF DOMAIN subscriptions[a] = { } THEN NoResub
                  ELSE [ active |-> TRUE, visited |-> { }, size |-> 0 ] ]
  /\ UNCHANGED << deployed, subscriptions, delivered, call, transport_subs, trackerVars,
                  lifecycleVars, setVars, loop_running, th, announced >>

\* a caller that gives up when publish returns False
after_publish_checked(r, ret) ==
  IF ret THEN r ELSE [ r EXCEPT !.pc = "except", !.exc = "PublishFailed" ]

\* self.mqtt.publish(create_event(...)) in the polling thread: the values the
\* call can return, and the thread (r: as the code after the call leaves it)
\* once the call has returned ret; the call is an expression statement at
\* every site, its value is dropped
publish_returns(a) ==
  { MQTTClient_publish(connected[a], session[a] = "open", o).ret : o \in PublishOutcomes }

after_publish(r, ret) == r

\* create_event(event_type, self.name, issue_number, payload={...}): the event's
\* type, its item (0: none) and the "action" of the dict passed as payload
\* ("none": it has none); the dict ends up in event.payload["payload"]
create_event(event_type, n, action) ==
  [ event_type |-> event_type, issue_number |-> n, action |-> action ]

\* every event counts as the announcement of a completed step
announces_step_any(e) == TRUE

\* the events with which an agent announces that it has completed a step on an
\* item: the ones it publishes after the set_status_label call of the step
announces_step(e) ==
  \/ e.event_type \in { "CODE_GENERATED", "QA_PASSED", "QA_FAILED" }
  \/ /\ e.event_type = "STATUS_CHANGED"
     /\ e.action \in { "waiting_for_clarification", "ready_for_dev" }

\* self.mqtt.publish(e) in a polling thread of agent a, which returned ret
\* (sent: the transport took the event)
published(a, e, ret) ==
  IF announces_step(e)
    THEN [ announced EXCEPT ![a] = Append(@, [ event |-> e, sent |-> ret ]) ]
    ELSE announced

\* _poll_loop: a thread at "loop" is new, or sits in the wait that ends a cycle;
\* the wait returns (event set, or poll_interval over) and the while test runs:
\*   while self.running and not self._stop_event.is_set(): ...
\*   self._stop_event.wait(self.config.poll_interval)
_poll_loop(a, t) ==
  /\ Th(a, t).pc = "loop"
  /\ IF running[a] /\ ~stop_event[a]
       THEN SetTh(a, t, [ Th(a, t) EXCEPT !.pc = "poll" ])
       ELSE SetTh(a, t, NoThread)
  /\ UNCHANGED << deployed, otherVars, announced, trackerVars, lifecycleVars, setVars, mqttVars >>

----------------------------------------------------------------------------
(* _process_issues : one poll cycle *)

\* get_issues(state="open", labels=[label]): the open issues carrying the label,
\* newest first
RECURSIVE issues_with(_, _)
issues_with(label, n) ==
  IF n = 0 THEN << >>
  ELSE IF label \in labels[n] THEN << n >> \o issues_with(label, n - 1)
  ELSE issues_with(label, n - 1)

get_issues(label) == issues_with(label, NumIssues)

\* the first statement of the role's per-item function
item_entry(a) == IF a = "requirements" THEN "analyze" ELSE "enter"

\* _process_issues: the get_issues call (an exception of it is caught by
\* _poll_loop), then the head of the for loop:
\*   if self._stop_event.is_set(): break
\*   if issue.number in self._processing_issues: continue   (not Requirements)
\*   try: self._process_issue(issue) / self._analyze_issue(issue)
\*   except Exception as e: logger.error(...)
_process_issues(a, t) ==
  /\ IF Th(a, t).pc = "except" THEN ~InTry(Th(a, t))
                               ELSE Th(a, t).pc \in { "poll", "iter" }
  /\ CASE Th(a, t).pc = "poll" ->
            \E ok \in BOOLEAN :
              IF ok
                THEN /\ SetTh(a, t, [ Th(a, t) EXCEPT !.pc = "iter",
                                                      !.issues = get_issues(poll_label(a)) ])
                     /\ UNCHANGED announced
                ELSE \* except of _poll_loop; those of the Requirements Engineer
                     \* and of the Frontend agent publish AGENT_ERROR
                     \E ret \in IF a \in { "requirements", "frontend" }
                                   THEN publish_returns(a) ELSE { TRUE } :
                       /\ SetTh(a, t, after_publish([ Th(a, t) EXCEPT !.pc = "loop" ], ret))
                       /\ announced' = IF a \in { "requirements", "frontend" }
                                         THEN published(a, create_event("AGENT_ERROR", 0, "none"),
                                                        ret)
                                         ELSE announced
       [] Th(a, t).pc = "iter" ->
            /\ UNCHANGED announced
            /\ IF Th(a, t).issues = << >> \/ stop_event[a]
                 THEN SetTh(a, t, [ Th(a, t) EXCEPT !.pc = "loop", !.issues = << >> ])
                 ELSE LET n == Head(Th(a, t).issues)
                          rest == Tail(Th(a, t).issues)
                      IN  IF HasProcessingIssues(a) /\ n \in processing_issues[a]
                            THEN SetTh(a, t, [ Th(a, t) EXCEPT !.issues = rest ])
                            ELSE SetTh(a, t, [ Th(a, t) EXCEPT !.pc = item_entry(a),
                                                               !.issues = rest,
                                                               !.issue = n ])
       [] Th(a, t).pc = "except" ->
            /\ SetTh(a, t, NextItem(Th(a, t)))
            /\ UNCHANGED announced
  /\ UNCHANGED << deployed, otherVars, trackerVars, lifecycleVars, setVars, mqttVars >>

----------------------------------------------------------------------------
(* GitHubClient.set_status_label and what follows it at each call site *)

\* the call self.github.set_status_label(issue.number, status) at a call site
Call_set_status_label(r, status, site) ==
  [ r EXCEPT !.pc = "ssl_get", !.status = status, !.site = site ]

\* set_status_label returned normally to its call site
Return(a, t) ==
  LET r == Th(a, t)
      n == r.issue
  IN  CASE r.site = "pre" ->
             \* _process_issue of Frontend/Backend goes on inside its try
             /\ SetTh(a, t, [ Cleared(r) EXCEPT !.pc = "generate", !.issue = n,
                                                !.site = "try" ])
             /\ UNCHANGED << setVars, announced >>
        [] r.site = "post" ->
             \* publish CODE_GENERATED; finally: del self._processing_issues[n]
             /\ \E ret \in publish_returns(a) :
                  /\ SetTh(a, t, after_publish(NextItem(r), ret))
                  /\ announced' = published(a, create_event("CODE_GENERATED", n,
                                       IF a = "frontend" THEN "frontend_completed"
                                                         ELSE "backend_completed"), ret)
             /\ processing_issues' = [ processing_issues EXCEPT ![a] = @ \ { n } ]
             /\ UNCHANGED clarification_issues
        [] r.site = "qa_done" ->
             \* done_label = self.config.labels.done
             IF "done" \in AgentLabelsFields
               THEN /\ SetTh(a, t, [ Cleared(r) EXCEPT !.pc = "qa_add_done", !.issue = n ])
                    /\ UNCHANGED << setVars, announced >>
               ELSE /\ Raise(a, t, "AgentLabels.done")
                    /\ UNCHANGED << setVars, announced >>
        [] r.site = "qa_fail" ->
             /\ SetTh(a, t, [ Cleared(r) EXCEPT !.pc = "qa_feedback", !.issue = n ])
             /\ UNCHANGED << setVars, announced >>
        [] r.site = "wfc" ->
             \* self._clarification_issues[n] = {...}; publish STATUS_CHANGED
             /\ \E ret \in publish_returns(a) :
                  /\ SetTh(a, t, after_publish(NextItem(r), ret))
                  /\ announced' = published(a, create_event("STATUS_CHANGED", n,
                                                             "waiting_for_clarification"), ret)
             /\ clarification_issues' = [ clarification_issues EXCEPT ![a] = @ \cup { n } ]
             /\ UNCHANGED processing_issues
        [] r.site \in { "rfd", "rfd_resp" } ->
             /\ SetTh(a, t, [ r EXCEPT !.pc = "rfd_add", !.status = "none",
                                       !.current_labels = << >>,
                                       !.labels_to_remove = << >> ])
             /\ UNCHANGED << setVars, announced >>

\* set_status_label, statement by statement:
\*  ssl_get     current_labels = self.get_issue(issue_number).labels
\*              (get_issue returns None on an HTTPError: .labels raises)
\*              status_labels = list(StatusManager.STATUS_LABELS.values())
\*              labels_to_remove = [l for l in current_labels if l in status_labels]
\*  ssl_remove  self.remove_label(issue_number, label)   for each of them
\*              (remove_label returns False on an HTTPError)
\*              (a RequestException that is no HTTPError leaves the function)
\*  ssl_add     new_label = get_label_for_status(status)
\*              if new_label: self.add_labels(issue_number, [new_label])
set_status_label(a, t) ==
  LET r == Th(a, t)
      n == r.issue
  IN
  /\ r.pc \in { "ssl_get", "ssl_remove", "ssl_add" }
  /\ CASE r.pc = "ssl_get" ->
            \E outcome \in { "ok", "http_error", "error" } :
              IF outcome = "ok" /\ "STATUS_LABELS" \in StatusManagerAttrs
                THEN LET current_labels == from_api_labels(labels[n])
                         rm == SelectSeq(current_labels, LAMBDA l : l \in StatusLabelNames)
                     IN  /\ SetTh(a, t, [ r EXCEPT
                                            !.pc = IF rm = << >> THEN "ssl_add" ELSE "ssl_remove",
                                            !.current_labels = current_labels,
                                            !.labels_to_remove = rm ])
                         /\ UNCHANGED << labels, setVars, announced >>
                ELSE /\ Raise(a, t, CASE outcome = "ok" -> "StatusManager.STATUS_LABELS"
                                        [] outcome = "http_error" -> "NoneType.labels"
                                        [] outcome = "error" -> "RequestException")
                     /\ UNCHANGED << labels, setVars, announced >>
       [] r.pc = "ssl_remove" ->
            \E outcome \in { "ok", "http_error", "error" } :
              LET rest == Tail(r.labels_to_remove)
                  go == [ r EXCEPT !.pc = IF rest = << >> THEN "ssl_add" ELSE "ssl_remove",
                                   !.labels_to_remove = rest ]
              IN  IF outcome = "error"
                    THEN /\ Raise(a, t, "RequestException")
                         /\ UNCHANGED << labels, setVars, announced >>
                    ELSE /\ SetTh(a, t, go)
                         /\ labels' =
                              IF outcome = "ok"
                                THEN [ labels EXCEPT ![n] = @ \ { Head(r.labels_to_remove) } ]
                                ELSE labels
                         /\ UNCHANGED << setVars, announced >>
       [] r.pc = "ssl_add" ->
            LET new_label == get_label_for_status(r.status)
            IN  IF new_label = ""
                  THEN /\ Return(a, t)
                       /\ UNCHANGED labels
                  ELSE \E ok \in BOOLEAN :
                         IF ok
                           THEN /\ labels' = [ labels EXCEPT ![n] = @ \cup { new_label } ]
                                /\ Return(a, t)
                           ELSE /\ Raise(a, t, "RequestException")
                                /\ UNCHANGED << labels, setVars, announced >>
  /\ UNCHANGED << deployed, otherVars, agent_comments, user_comments, issue_updates, user_edits,
                  lifecycleVars, mqttVars >>

----------------------------------------------------------------------------
(* FrontendAgent._process_issue and BackendAgent._process_issue *)

\*  enter     self._processing_issues[n] = "in_progress"; publish STATUS_CHANGED;
\*            self.github.set_status_label(n, IN_PROGRESS)      (before the try)
\*  generate  try: _generate_*_code: llm.generate_code; raises when not success
\*  commit    _create_and_commit: create_branch, create_or_update_file (their
\*            exceptions are swallowed), publish CODE_COMMITTED
\*  add_ready Frontend only: self.github.add_labels(n, [self.config.labels.ready])
\*            then, in both: self.github.set_status_label(n, READY_FOR_QA)
\*  except    an exception inside the try: except (log; Frontend also publishes
\*            AGENT_ERROR), then finally: del self._processing_issues[n]
_process_issue(a, t) ==
  LET r == Th(a, t)
      n == r.issue
  IN
  /\ a \in { "frontend", "backend" }
  /\ IF r.pc = "except" THEN InTry(r)
                        ELSE r.pc \in { "enter", "generate", "commit", "add_ready" }
  /\ CASE r.pc = "enter" ->
            /\ processing_issues' = [ processing_issues EXCEPT ![a] = @ \cup { n } ]
            /\ \E ret \in publish_returns(a) :
                 /\ SetTh(a, t, after_publish(Call_set_status_label(r, "IN_PROGRESS", "pre"),
                                              ret))
                 /\ announced' = published(a, create_event("STATUS_CHANGED", n,
                                      IF a = "frontend" THEN "frontend_dev_started"
                                                        ELSE "backend_dev_started"), ret)
            /\ UNCHANGED << labels, clarification_issues >>
       [] r.pc = "generate" ->
            \E success \in BOOLEAN :
              IF success
                THEN /\ SetTh(a, t, [ r EXCEPT !.pc = "commit" ])
                     /\ UNCHANGED << labels, setVars, announced >>
                ELSE /\ Raise(a, t, "Exception")
                     /\ UNCHANGED << labels, setVars, announced >>
       [] r.pc = "commit" ->
            /\ \E ret \in publish_returns(a) :
                 /\ SetTh(a, t, after_publish(
                                  IF a = "frontend" /\ labels_ready(a) # ""
                                    THEN [ r EXCEPT !.pc = "add_ready" ]
                                    ELSE Call_set_status_label(r, "READY_FOR_QA", "post"), ret))
                 /\ announced' = published(a, create_event("CODE_COMMITTED", n, "none"), ret)
            /\ UNCHANGED << labels, setVars >>
       [] r.pc = "add_ready" ->
            \E ok \in BOOLEAN :
              IF ok
                THEN /\ labels' = [ labels EXCEPT ![n] = @ \cup { labels_ready(a) } ]
                     /\ SetTh(a, t, Call_set_status_label(r, "READY_FOR_QA", "post"))
                     /\ UNCHANGED << setVars, announced >>
                ELSE /\ Raise(a, t, "RequestException")
                     /\ UNCHANGED << labels, setVars, announced >>
       [] r.pc = "except" ->
            /\ \E ret \in IF a = "frontend" THEN publish_returns(a) ELSE { TRUE } :
                 /\ SetTh(a, t, after_publish(NextItem(r), ret))
                 /\ announced' = IF a = "frontend"
                                   THEN published(a, create_event("AGENT_ERROR", n, "none"), ret)
                                   ELSE announced
            /\ processing_issues' = [ processing_issues EXCEPT ![a] = @ \ { n } ]
            /\ UNCHANGED << labels, clarification_issues >>
  /\ UNCHANGED << deployed, otherVars, agent_comments, user_comments, issue_updates, user_edits,
                  lifecycleVars, mqttVars >>

----------------------------------------------------------------------------
(* QAAgent._process_issue : no try, no finally *)

\*  enter        self._processing_issues[n] = "in_progress"; publish STATUS_CHANGED;
\*               qa_result = self._run_qa_checks(issue)  (two llm.generate calls);
\*               passed: set_status_label(n, DONE); else set_status_label(n, IN_PROGRESS)
\*  qa_add_done  self.github.add_labels(n, [done_label]); publish QA_PASSED;
\*               _create_pull_request (its exception is swallowed); del entry
\*  qa_feedback  _add_qa_feedback: self.github.add_comment; publish QA_FAILED; del entry
QAAgent_process_issue(a, t) ==
  LET r == Th(a, t)
      n == r.issue
  IN
  /\ a = "qa"
  /\ r.pc \in { "enter", "qa_add_done", "qa_feedback" }
  /\ CASE r.pc = "enter" ->
            /\ processing_issues' = [ processing_issues EXCEPT ![a] = @ \cup { n } ]
            /\ \E ret \in publish_returns(a), passed \in BOOLEAN :
                 /\ SetTh(a, t, after_publish(
                      IF passed THEN Call_set_status_label(r, "DONE", "qa_done")
                                ELSE Call_set_status_label(r, "IN_PROGRESS", "qa_fail"), ret))
                 /\ announced' = published(a, create_event("STATUS_CHANGED", n, "qa_started"),
                                           ret)
            /\ UNCHANGED << labels, agent_comments, clarification_issues >>
       [] r.pc = "qa_add_done" ->
            \E ok \in BOOLEAN :
              IF ok
                THEN /\ labels' = [ labels EXCEPT ![n] = @ \cup { "done" } ]
                     /\ \E ret \in publish_returns(a) :
                          /\ SetTh(a, t, after_publish(NextItem(r), ret))
                          /\ announced' = published(a, create_event("QA_PASSED", n, "none"), ret)
                     /\ processing_issues' = [ processing_issues EXCEPT ![a] = @ \ { n } ]
                     /\ UNCHANGED << agent_comments, clarification_issues >>
                ELSE /\ Raise(a, t, "RequestException")
                     /\ UNCHANGED << labels, agent_comments, setVars, announced >>
       [] r.pc = "qa_feedback" ->
            /\ agent_comments[n] < MaxWrites
            /\ \E ok \in BOOLEAN :
                 IF ok
                   THEN /\ agent_comments' = [ agent_comments EXCEPT ![n] = @ + 1 ]
                        /\ \E ret \in publish_returns(a) :
                             /\ SetTh(a, t, after_publish(NextItem(r), ret))
                             /\ announced' = published(a, create_event("QA_FAILED", n, "none"),
                                                       ret)
                        /\ processing_issues' = [ processing_issues EXCEPT ![a] = @ \ { n } ]
                        /\ UNCHANGED << labels, clarification_issues >>
                   ELSE /\ Raise(a, t, "RequestException")
                        /\ UNCHANGED << labels, agent_comments, setVars, announced >>
  /\ UNCHANGED << deployed, otherVars, user_comments, issue_updates, user_edits,
                  lifecycleVars, mqttVars >>

----------------------------------------------------------------------------
(* RequirementsEngineerAgent : _analyze_issue and what it calls *)

\* clarification_count = sum(1 for c in comments if c.user != self.name)
clarification_count(n) == IF user_comments[n] THEN 1 ELSE 0

\* _analyze_issue: publish ISSUE_UPDATED; comments = self.github.get_comments(n);
\* no comment of somebody else: _analyze_and_ask, else _check_responses.
\* _analyze_and_ask begins with the two generation calls:
\*   analysis = llm.analyze_requirement(...); questions = llm.generate_clarification_questions(...)
\*   needs_clarification = analysis.get('needs_clarification', False) or len(questions) > 0
_analyze_issue(a, t) ==
  LET r == Th(a, t)
      n == r.issue
  IN
  /\ a = "requirements"
  /\ r.pc = "analyze"
  /\ \E ret \in publish_returns(a), ok \in BOOLEAN, needs_clarification \in BOOLEAN :
       /\ announced' = published(a, create_event("ISSUE_UPDATED", n, "analysis_started"), ret)
       /\ SetTh(a, t, after_publish(
         IF ~ok THEN [ r EXCEPT !.pc = "except", !.exc = "RequestException" ]
         ELSE IF clarification_count(n) # 0 THEN [ r EXCEPT !.pc = "check_responses" ]
         ELSE IF needs_clarification
           THEN [ r EXCEPT !.pc = "post_questions", !.site = "ask" ]
           ELSE [ r EXCEPT !.pc = "rfd_update", !.site = "rfd" ], ret))
  /\ UNCHANGED << deployed, otherVars, trackerVars, lifecycleVars, setVars, mqttVars >>

\* _analyze_and_ask, the needs_clarification branch:
\*   self._post_clarification_questions(...): self.github.add_comment(n, comment)
\*   self.github.set_status_label(n, WAITING_FOR_CLARIFICATION)
\* (called from _check_responses: the follow-up comment, and no label write)
_analyze_and_ask(a, t) ==
  LET r == Th(a, t)
      n == r.issue
  IN
  /\ a = "requirements"
  /\ r.pc = "post_questions"
  /\ agent_comments[n] < MaxQuestions
  /\ \E ok \in BOOLEAN :
       IF ok
         THEN /\ agent_comments' = [ agent_comments EXCEPT ![n] = @ + 1 ]
              /\ SetTh(a, t, IF r.site = "followup"
                               THEN NextItem(r)
                               ELSE Call_set_status_label(
                                      r, "WAITING_FOR_CLARIFICATION", "wfc"))
         ELSE /\ Raise(a, t, "RequestException")
              /\ UNCHANGED agent_comments
  /\ UNCHANGED << deployed, otherVars, announced, labels, user_comments, issue_updates, user_edits,
                  lifecycleVars, setVars, mqttVars >>

\* _check_responses: returns at once for an issue that is not tracked in
\* _clarification_issues; otherwise looks for comments of somebody else newer
\* than asked_at, analyzes them and marks the issue ready or asks again
_check_responses(a, t) ==
  LET r == Th(a, t)
      n == r.issue
  IN
  /\ a = "requirements"
  /\ r.pc = "check_responses"
  /\ IF n \notin clarification_issues[a]
       THEN SetTh(a, t, NextItem(r))
       ELSE \E new_comments \in { FALSE, user_comments[n] }, needs_more \in BOOLEAN :
              SetTh(a, t, IF ~new_comments THEN NextItem(r)
                          ELSE IF needs_more
                            THEN [ r EXCEPT !.pc = "post_questions", !.site = "followup" ]
                            ELSE [ r EXCEPT !.pc = "rfd_update", !.site = "rfd_resp" ])
  /\ UNCHANGED << deployed, otherVars, announced, trackerVars, lifecycleVars, setVars, mqttVars >>

\* _mark_ready_for_dev:
\*  rfd_update  self.github.update_issue(n, body=...), then
\*              self.github.set_status_label(n, READY_FOR_DEV)
\*  rfd_add     self.github.add_labels(n, [self.config.labels.ready]); publish
\*              STATUS_CHANGED; back in _check_responses: del _clarification_issues[n]
_mark_ready_for_dev(a, t) ==
  LET r == Th(a, t)
      n == r.issue
  IN
  /\ a = "requirements"
  /\ r.pc \in { "rfd_update", "rfd_add" }
  /\ CASE r.pc = "rfd_update" ->
            /\ issue_updates[n] < MaxWrites
            /\ \E ok \in BOOLEAN :
                 IF ok
                   THEN /\ issue_updates' = [ issue_updates EXCEPT ![n] = @ + 1 ]
                        /\ SetTh(a, t, Call_set_status_label(r, "READY_FOR_DEV", r.site))
                   ELSE /\ Raise(a, t, "RequestException")
                        /\ UNCHANGED issue_updates
            /\ UNCHANGED << labels, clarification_issues, announced >>
       [] r.pc = "rfd_add" ->
            /\ \E ok \in BOOLEAN :
                 IF ok \/ labels_ready(a) = ""
                   THEN /\ labels' = [ labels EXCEPT ![n] =
                                         IF labels_ready(a) = "" THEN @
                                         ELSE @ \cup { labels_ready(a) } ]
                        /\ clarification_issues' =
                             IF r.site = "rfd_resp"
                               THEN [ clarification_issues EXCEPT ![a] = @ \ { n } ]
                               ELSE clarification_issues
                        /\ \E ret \in publish_returns(a) :
                             /\ SetTh(a, t, after_publish(NextItem(r), ret))
                             /\ announced' = published(a, create_event("STATUS_CHANGED", n,
                                                                        "ready_for_dev"), ret)
                   ELSE /\ Raise(a, t, "RequestException")
                        /\ UNCHANGED << labels, clarification_issues, announced >>
            /\ UNCHANGED issue_updates
  /\ UNCHANGED << deployed, otherVars, agent_comments, user_comments, user_edits, lifecycleVars,
                  processing_issues, mqttVars >>

----------------------------------------------------------------------------
(* The people using the tracker *)

\* at most one status label
AtMostOneStatusLabel(S) == Cardinality(S \cap StatusLabelNames) <= 1

\* A person replaces the status label of an issue (one "set labels" request):
\* the other labels stay, the issue keeps at most one status label.
user_relabel(n) ==
  /\ user_edits < MaxUserEdits
  /\ \E l \in StatusLabelNames :
       /\ l \notin labels[n]
       /\ labels' = [ labels EXCEPT ![n] = (@ \ StatusLabelNames) \cup { l } ]
  /\ user_edits' = user_edits + 1
  /\ UNCHANGED << deployed, otherVars, announced, agent_comments, user_comments, issue_updates, lifecycleVars,
                  setVars, mqttVars, th >>

\* A person comments on an issue.
user_comment(n) ==
  /\ ~user_comments[n]
  /\ user_comments' = [ user_comments EXCEPT ![n] = TRUE ]
  /\ UNCHANGED << deployed, otherVars, announced, labels, agent_comments, issue_updates, user_edits,
                  lifecycleVars, setVars, mqttVars, th >>

----------------------------------------------------------------------------
(* Specifications *)

\* the state after the constructors: nothing runs, nothing is connected
InitAgents ==
  /\ running = [ a \in Agents |-> FALSE ]
  /\ stop_event = [ a \in Agents |-> FALSE ]
  /\ processing_issues = [ a \in Agents |-> { } ]
  /\ clarification_issues = [ a \in Agents |-> { } ]
  /\ connected = [ a \in Agents |-> FALSE ]
  /\ loop_running = [ a \in Agents |-> FALSE ]
  /\ session = [ a \in Agents |-> "none" ]
  /\ transport_subs = [ a \in Agents |-> { } ]
  /\ resub = [ a \in Agents |-> NoResub ]
  /\ th = [ x \in Threads |-> NoThread ]
  /\ subscriptions = [ a \in Agents |-> << >> ]
  /\ delivered = [ a \in Agents |-> << >> ]
  /\ announced = [ a \in Agents |-> << >> ]
  /\ call = NoCall

InitTracker ==
  /\ agent_comments = [ n \in Issues |-> 0 ]
  /\ user_comments = [ n \in Issues |-> FALSE ]
  /\ issue_updates = [ n \in Issues |-> 0 ]
  /\ user_edits = 0

\* the label sets an issue can start with: at most one status label
InitLabelSets ==
  { S \in SUBSET LabelNames : AtMostOneStatusLabel(S) /\ Cardinality(S) <= 1 }

ThreadStep(a, t) ==
  \/ _poll_loop(a, t)
  \/ _process_issues(a, t)
  \/ _process_issue(a, t)
  \/ QAAgent_process_issue(a, t)
  \/ _analyze_issue(a, t)
  \/ _analyze_and_ask(a, t)
  \/ _check_responses(a, t)
  \/ _mark_ready_for_dev(a, t)
  \/ set_status_label(a, t)

\* the issues that carry labels at the start and that people work on
RolesIssues == { 1 }

\* Spec: one agent instance of any role, started and stopped at will by its
\* owner, on a tracker where people comment and nobody else labels; each issue
\* waits for the agent (it carries the label the agent polls) or does not.
Init ==
  /\ \E a \in Agents :
       /\ deployed = { a }
       /\ labels \in [ Issues -> { { }, { poll_label(a) } } ]
  /\ InitTracker
  /\ InitAgents

Next ==
  \/ \E a \in Agents : start(a)
  \/ \E a \in Agents : stop(a)
  \/ \E a \in Agents : _on_connect(a)
  \/ \E a \in Agents, t \in Slots : ThreadStep(a, t)
  \/ \E n \in RolesIssues : user_comment(n)

Spec == Init /\ [][Next]_vars

\* main() of each agent module: agent.start(), once, then it sleeps while
\* agent.running
main(a) ==
  /\ ~running[a]
  /\ \A t \in Slots : ~Alive(a, t)
  /\ start(a)

\* SpecRoles: MaxDeployed of the four agents, each started once by its main(),
\* polling one tracker that people also label and comment on.
InitRoles ==
  /\ deployed \in { D \in SUBSET Agents : Cardinality(D) = MaxDeployed }
  /\ labels \in [ Issues -> InitLabelSets ]
  /\ \A n \in Issues \ RolesIssues : labels[n] = { }
  /\ InitTracker
  /\ InitAgents

NextRoles ==
  \/ \E a \in Agents : main(a)
  \/ \E a \in Agents, t \in Slots : ThreadStep(a, t)
  \/ \E n \in RolesIssues : user_relabel(n)
  \/ \E n \in RolesIssues : user_comment(n)

SpecRoles == InitRoles /\ [][NextRoles]_vars

----------------------------------------------------------------------------
(* Properties: the polling runtime *)

\* the statements of set_status_label
SslPcs == { "ssl_get", "ssl_remove", "ssl_add" }

\* Is the thread executing the _process_issue of Frontend, Backend or QA?  The
\* call begins with the insertion into _processing_issues and is over when the
\* function has returned or its exception has left it.
InProcessIssue(r) ==
  \/ r.pc \in SslPcs \cup { "generate", "commit", "add_ready", "qa_add_done", "qa_feedback" }
  \/ r.pc = "except" /\ InTry(r)

\* the statements that send a request to the tracker
TrackerCallPcs ==
  { "poll", "analyze", "post_questions", "rfd_update", "rfd_add", "commit",
    "add_ready", "qa_add_done", "qa_feedback" } \cup SslPcs

\* the status the tracker's labels of issue n stand for
CurrentStatus(n) == get_status_from_labels(from_api_labels(labels[n]))

\* C1: once _process_issue of Frontend, Backend or QA has finished for an issue,
\* by returning or by raising, the issue's number is no longer in
\* _processing_issues: every number in the set belongs to an execution of
\* _process_issue that is still going on.
C1_EntryRemovedWhenFinished ==
  \A a \in { "frontend", "backend", "qa" } :
    \A n \in processing_issues[a] :
      \E t \in Slots : Th(a, t).issue = n /\ InProcessIssue(Th(a, t))

\* C2: within one agent instance no issue is processed by two executions of
\* _process_issue at the same time, whatever start() and stop() calls were made.
C2_NoTwoExecutionsOfOneIssue ==
  \A a \in { "frontend", "backend", "qa" } :
    \A t1 \in Slots, t2 \in Slots :
      ( /\ t1 # t2
        /\ InProcessIssue(Th(a, t1))
        /\ InProcessIssue(Th(a, t2)) ) => Th(a, t1).issue # Th(a, t2).issue

\* C3: after any sequence of start() and stop() calls an agent instance has at
\* most one polling thread alive.
C3_AtMostOnePollingThread ==
  \A a \in Agents : Cardinality({ t \in Slots : Alive(a, t) }) <= 1

\* C4: once stop() has returned (and until the agent is started again) the
\* polling thread sends no request to the tracker, also when stop() was called
\* while an item was being processed.
C4_NoTrackerCallAfterStop ==
  [][ \A a \in Agents, t \in Slots :
        ( ~running[a] /\ th'[<< a, t >>] # th[<< a, t >>] )
          => th[<< a, t >>].pc \notin TrackerCallPcs ]_vars

----------------------------------------------------------------------------
(* Properties: set_status_label *)

C6_EveryCallIsLegal ==
  [][ \A a \in Agents, t \in Slots :
        LET r == th'[<< a, t >>]
        IN  ( r.pc = "ssl_get" /\ th[<< a, t >>].pc # "ssl_get" )
              => is_ready_for_transition(
                   get_status_from_labels(from_api_labels(labels'[r.issue])),
                   r.status) ]_vars

C9_ServedCallSetsTargetLabel ==
  [][ \A a \in Agents, t \in Slots :
        LET r == th[<< a, t >>]
            q == th'[<< a, t >>]
            before == IF r.pc = "ssl_get" THEN labels[r.issue]
                      ELSE { r.current_labels[k] : k \in 1..Len(r.current_labels) }
        IN  ( /\ r.pc \in SslPcs
              /\ q # r
              /\ q.pc \notin SslPcs
              /\ ~(q.pc = "except" /\ q.exc \in TrackerErrors) )
              => labels'[r.issue] =
                   (before \ StatusLabelNames) \cup { get_label_for_status(r.status) } ]_vars

----------------------------------------------------------------------------
(* SpecStatus: the functions of the status model, called with every status, *)
(* every pair of statuses and every list of at most MaxLabels labels, each   *)
(* call made in a fresh interpreter                                          *)

agentVars ==
  << deployed, trackerVars, lifecycleVars, setVars, mqttVars, th, subscriptions,
     delivered, transport_subs, resub, announced >>

\* the label lists a caller can pass
LabelLists == UNION { [ 1..k -> LabelNames ] : k \in 0..MaxLabels }

\* a call of StatusManager.is_ready_for_transition
call_is_ready_for_transition ==
  /\ call = NoCall
  /\ \E current_status \in Statuses, target_status \in Statuses :
       call' = [ fn |-> "is_ready_for_transition",
                 args |-> << current_status, target_status >>,
                 result |-> is_ready_for_transition(current_status, target_status) ]
  /\ UNCHANGED agentVars

\* a call of StatusManager.get_status_from_labels
call_get_status_from_labels ==
  /\ call = NoCall
  /\ \E ls \in LabelLists :
       call' = [ fn |-> "get_status_from_labels", args |-> ls,
                 result |-> get_status_from_labels(ls) ]
  /\ UNCHANGED agentVars

\* a call of StatusManager.get_label_for_status
call_get_label_for_status ==
  /\ call = NoCall
  /\ \E status \in Statuses :
       call' = [ fn |-> "get_label_for_status", args |-> << status >>,
                 result |-> get_label_for_status(status) ]
  /\ UNCHANGED agentVars

\* A walk through the table: it starts at any status and goes on by one
\* transition for which is_ready_for_transition returns True.
walk ==
  /\ IF call.fn = "walk"
       THEN /\ Len(call.args) <= MaxWalk
            /\ \E target_status \in Statuses :
                 /\ is_ready_for_transition(call.args[Len(call.args)], target_status)
                 /\ call' = [ call EXCEPT !.args = Append(@, target_status) ]
       ELSE \E status \in Statuses :
              /\ call = NoCall
              /\ call' = [ fn |-> "walk", args |-> << status >>, result |-> "none" ]
  /\ UNCHANGED agentVars

InitStatus ==
  /\ deployed = { }
  /\ labels = [ n \in Issues |-> { } ]
  /\ InitTracker
  /\ InitAgents

NextStatus ==
  \/ call_is_ready_for_transition
  \/ call_get_status_from_labels
  \/ call_get_label_for_status
  \/ walk

SpecStatus == InitStatus /\ [][NextStatus]_vars

\* the nine transitions of the workflow
LegalPairs ==
  { << "NEW", "WAITING_FOR_CLARIFICATION" >>, << "NEW", "READY_FOR_DEV" >>,
    << "WAITING_FOR_CLARIFICATION", "READY_FOR_DEV" >>,
    << "READY_FOR_DEV", "IN_PROGRESS" >>, << "IN_PROGRESS", "READY_FOR_QA" >>,
    << "IN_PROGRESS", "BLOCKED" >>, << "BLOCKED", "IN_PROGRESS" >>,
    << "READY_FOR_QA", "DONE" >>, << "READY_FOR_QA", "IN_PROGRESS" >> }

\* C11: is_ready_for_transition returns True for the nine pairs of the workflow
\* and False for each of the other 40 pairs of statuses.
C11_TrueForTheNinePairs ==
  call.fn = "is_ready_for_transition"
    => ( call.result <=> call.args \in LegalPairs )

\* a pair starting from DONE was asked for and refused
C11_RefusedFromDone ==
  /\ call.fn = "is_ready_for_transition"
  /\ call.args = << "DONE", "READY_FOR_DEV" >>
  /\ call.result = FALSE

\* Has the walk come back to the status it started at?
ClosedWalk ==
  /\ call.fn = "walk"
  /\ Len(call.args) > 1
  /\ call.args[1] = call.args[Len(call.args)]

\* the statuses a walk went through
WalkStatuses == { call.args[k] : k \in 1..Len(call.args) }

\* C12, as the spec states it: the only cycle among the legal transitions is the
\* one between IN_PROGRESS and BLOCKED, so a walk that comes back to its start
\* has seen these two statuses only.
C12_OnlyCycleIsBlocked ==
  ClosedWalk => WalkStatuses \subseteq { "IN_PROGRESS", "BLOCKED" }

\* C12, amended: the legal transitions have two cycles, each of two statuses
\* and both through IN_PROGRESS (with BLOCKED, and with READY_FOR_QA): a walk
\* that comes back to its start has seen these three statuses only, and one of
\* any two statuses that follow each other in it is IN_PROGRESS.
C12_CyclesGoThroughInProgress ==
  ClosedWalk =>
    /\ WalkStatuses \subseteq { "IN_PROGRESS", "BLOCKED", "READY_FOR_QA" }
    /\ \A k \in 1..(Len(call.args) - 1) :
         call.args[k] = "IN_PROGRESS" \/ call.args[k + 1] = "IN_PROGRESS"

\* the walk through the second cycle
C12_CycleThroughReadyForQa ==
  /\ call.fn = "walk"
  /\ call.args = << "IN_PROGRESS", "READY_FOR_QA", "IN_PROGRESS" >>

\* the statuses whose label is in the list
Recognized(ls) ==
  { st \in Statuses : \E k \in 1..Len(ls) : ls[k] = STATUS_LABELS[st] }

\* the status of a set that is declared first in class IssueStatus
FirstDeclared(S) ==
  IssueStatus[CHOOSE k \in 1..Len(IssueStatus) :
                /\ IssueStatus[k] \in S
                /\ \A j \in 1..(k - 1) : IssueStatus[j] \notin S]

\* C13: when the list holds the labels of several statuses, get_status_from_labels
\* returns the one of them that is declared first in IssueStatus, whatever the
\* order of the list.
C13_FirstInDeclarationOrder ==
  ( call.fn = "get_status_from_labels" /\ Recognized(call.args) # { } )
    => call.result = FirstDeclared(Recognized(call.args))

\* C14: get_status_from_labels returns NEW when no label of the list is a status
\* label, and s when the label of s is the only status label in the list,
\* whatever other labels are in it.
C14_DefaultAndSingleLabel ==
  call.fn = "get_status_from_labels" =>
    /\ call.result \in Statuses
    /\ Recognized(call.args) = { } => call.result = "NEW"
    /\ \A st \in Statuses : Recognized(call.args) = { st } => call.result = st

\* the only status label of the list stands between two other labels
C14_SingleLabelAmongOthers ==
  /\ call.fn = "get_status_from_labels"
  /\ call.args = << OtherLabel, "ready_for_qa", OtherLabel >>
  /\ call.result = "READY_FOR_QA"

\* the seven label strings
SevenLabels ==
  { "needs-analysis", "waiting_for_clarification", "ready_for_dev", "in_progress",
    "ready_for_qa", "done", "blocked" }

\* C15: STATUS_LABELS maps the seven statuses one-to-one onto the seven label
\* strings, and get_status_from_labels([get_label_for_status(s)]) = s.
C15_LabelRoundTrip ==
  /\ \A s1 \in Statuses, s2 \in Statuses :
       STATUS_LABELS[s1] = STATUS_LABELS[s2] => s1 = s2
  /\ StatusLabelNames = SevenLabels
  /\ call.fn = "get_label_for_status"
       => get_status_from_labels(<< call.result >>) = call.args[1]

\* the label of a status has been asked for
C15_LabelOfInProgress ==
  /\ call.fn = "get_label_for_status"
  /\ call.args = << "IN_PROGRESS" >>
  /\ call.result = "in_progress"

----------------------------------------------------------------------------
(* common/event_types.py : AgentEvent and its JSON form *)

\* class EventType: member name -> value
EventType ==
  [ ISSUE_CREATED |-> "issue_created", ISSUE_UPDATED |-> "issue_updated",
    ISSUE_CLOSED |-> "issue_closed", ISSUE_REOPENED |-> "issue_reopened",
    COMMENT_ADDED |-> "comment_added", LABEL_CHANGED |-> "label_changed",
    STATUS_CHANGED |-> "status_changed", AGENT_STARTED |-> "agent_started",
    AGENT_STOPPED |-> "agent_stopped", AGENT_ERROR |-> "agent_error",
    CODE_GENERATED |-> "code_generated", CODE_COMMITTED |-> "code_committed",
    CODE_REVIEWED |-> "code_reviewed", QA_PASSED |-> "qa_passed",
    QA_FAILED |-> "qa_failed" ]

EventTypeValues == { EventType[m] : m \in DOMAIN EventType }

\* Python values: t is the type, v the value of a scalar, items the elements
\* of a list or tuple
Py(t, v, items) == [ t |-> t, v |-> v, items |-> items ]
PyStr(v) == Py("str", v, << >>)
PyInt(v) == Py("int", v, << >>)
PyNone == Py("NoneType", "None", << >>)

\* JSON values: string, number, null, array
Json(t, v, items) == [ t |-> t, v |-> v, items |-> items ]

\* json.dumps of a scalar
json_dumps_scalar(x) ==
  CASE x.t = "str" -> Json("string", x.v, << >>)
    [] x.t = "int" -> Json("number", x.v, << >>)
    [] x.t = "NoneType" -> Json("null", "null", << >>)

\* json.dumps of a value: lists AND tuples are written as arrays
json_dumps(x) ==
  IF x.t \in { "list", "tuple" }
    THEN Json("array", "", [ k \in 1..Len(x.items) |-> json_dumps_scalar(x.items[k]) ])
    ELSE json_dumps_scalar(x)

\* json.loads of a scalar
json_loads_scalar(j) ==
  CASE j.t = "string" -> PyStr(j.v)
    [] j.t = "number" -> PyInt(j.v)
    [] j.t = "null" -> PyNone

\* json.loads of a value: an array is read as a list
json_loads(j) ==
  IF j.t = "array"
    THEN Py("list", "", [ k \in 1..Len(j.items) |-> json_loads_scalar(j.items[k]) ])
    ELSE json_loads_scalar(j)

\* the fields of the JSON record of an event
EventFields == { "event_type", "agent_name", "timestamp", "issue_number", "payload" }

\* a serialization that writes the member's name instead of its value
to_json_by_name(self) ==
  [ json |-> TRUE,
    data |-> [ event_type |-> Json("string", self.event_type, << >>),
               agent_name |-> json_dumps(self.agent_name),
               timestamp |-> json_dumps(self.timestamp),
               issue_number |-> json_dumps(self.issue_number),
               payload |-> [ k \in DOMAIN self.payload |-> json_dumps(self.payload[k]) ] ] ]

\* AgentEvent.to_json: json.dumps of the dict of the five fields, the event
\* type by its value
to_json(self) ==
  [ json |-> TRUE,
    data |-> [ event_type |-> Json("string", EventType[self.event_type], << >>),
               agent_name |-> json_dumps(self.agent_name),
               timestamp |-> json_dumps(self.timestamp),
               issue_number |-> json_dumps(self.issue_number),
               payload |-> [ k \in DOMAIN self.payload |-> json_dumps(self.payload[k]) ] ] ]

\* no event (the call raised)
NoEvent ==
  [ event_type |-> "none", agent_name |-> PyNone, timestamp |-> PyNone,
    issue_number |-> PyNone, payload |-> << >> ]

Raised(exc) == [ exc |-> exc, event |-> NoEvent ]

\* EventType(value): the member with that value
EventType_by_value(j) ==
  CHOOSE m \in DOMAIN EventType : EventType[m] = j.v

\* a deserialization that takes an unknown or missing type for AGENT_ERROR
from_json_lenient(json_str) ==
  IF ~json_str.json THEN Raised("JSONDecodeError")
  ELSE LET data == json_str.data
       IN  IF { "agent_name", "timestamp" } \subseteq DOMAIN data
             THEN [ exc |-> "none",
                    event |->
                      [ event_type |->
                          IF "event_type" \in DOMAIN data
                             /\ data["event_type"].t = "string"
                             /\ data["event_type"].v \in EventTypeValues
                            THEN EventType_by_value(data["event_type"])
                            ELSE "AGENT_ERROR",
                        agent_name |-> json_loads(data["agent_name"]),
                        timestamp |-> json_loads(data["timestamp"]),
                        issue_number |-> IF "issue_number" \in DOMAIN data
                                           THEN json_loads(data["issue_number"])
                                           ELSE PyNone,
                        payload |-> IF "payload" \in DOMAIN data
                                      THEN [ k \in DOMAIN data["payload"] |->
                                               json_loads(data["payload"][k]) ]
                                      ELSE << >> ] ]
             ELSE Raised("KeyError")

\* AgentEvent.from_json:
\*   data = json.loads(json_str)
\*   cls(event_type=EventType(data['event_type']), agent_name=data['agent_name'],
\*       timestamp=data['timestamp'], issue_number=data.get('issue_number'),
\*       payload=data.get('payload', {}))
from_json(json_str) ==
  IF ~json_str.json THEN Raised("JSONDecodeError")
  ELSE LET data == json_str.data
       IN  IF "event_type" \notin DOMAIN data THEN Raised("KeyError")
           ELSE IF ~( data["event_type"].t = "string"
                      /\ data["event_type"].v \in EventTypeValues )
             THEN Raised("ValueError")
           ELSE IF "agent_name" \notin DOMAIN data THEN Raised("KeyError")
           ELSE IF "timestamp" \notin DOMAIN data THEN Raised("KeyError")
           ELSE [ exc |-> "none",
                  event |->
                    [ event_type |-> EventType_by_value(data["event_type"]),
                      agent_name |-> json_loads(data["agent_name"]),
                      timestamp |-> json_loads(data["timestamp"]),
                      issue_number |-> IF "issue_number" \in DOMAIN data
                                         THEN json_loads(data["issue_number"])
                                         ELSE PyNone,
                      payload |-> IF "payload" \in DOMAIN data
                                    THEN [ k \in DOMAIN data["payload"] |->
                                             json_loads(data["payload"][k]) ]
                                    ELSE << >> ] ]

----------------------------------------------------------------------------
(* SpecEvents: to_json and from_json called with every event and every text *)
(* of the bounded sets below, each call made in a fresh interpreter         *)

PyScalars == { PyStr("a.py"), PyInt("1"), PyNone }

ScalarSeqs == UNION { [ 1..k -> PyScalars ] : k \in 0..MaxItems }

\* the values of a payload entry: scalars, lists and tuples of scalars
PyValues ==
  PyScalars \cup { Py("list", "", q) : q \in ScalarSeqs }
            \cup { Py("tuple", "", q) : q \in ScalarSeqs }

\* payload: Dict[str, Any], here with at most the key "files"
Payloads == { << >> } \cup { [ files |-> x ] : x \in PyValues }

\* the events: any type, with and without an issue number, any payload
Events ==
  { [ event_type |-> m, agent_name |-> PyStr("backend"),
      timestamp |-> PyStr("2026-01-01T00:00:00"), issue_number |-> i, payload |-> p ] :
      m \in DOMAIN EventType,
      i \in { PyNone } \cup { PyInt("1") },
      p \in Payloads }

\* the JSON record without the fields of K
Without(json_str, K) ==
  [ json_str EXCEPT !.data = [ k \in (DOMAIN json_str.data) \ K |-> json_str.data[k] ] ]

\* values of the field event_type that are no value of EventType
BadTypes == { Json("string", "AGENT_STARTED", << >>), Json("number", "1", << >>) }

\* the texts a reader can be handed: serialized events, the same with fields
\* left out or with another event_type, and text that is no JSON
Texts ==
  { Without(to_json(e), K) : e \in Events, K \in SUBSET EventFields }
    \cup { [ to_json(e) EXCEPT !.data["event_type"] = b ] : e \in Events, b \in BadTypes }
    \cup { [ json |-> FALSE, data |-> << >> ] }

\* a call of AgentEvent.to_json
call_to_json ==
  /\ call = NoCall
  /\ \E e \in Events :
       call' = [ fn |-> "to_json", args |-> e, result |-> to_json(e) ]
  /\ UNCHANGED agentVars

\* a call of AgentEvent.from_json
call_from_json ==
  /\ call = NoCall
  /\ \E json_str \in Texts :
       call' = [ fn |-> "from_json", args |-> json_str, result |-> from_json(json_str) ]
  /\ UNCHANGED agentVars

\* AgentEvent.from_json(e.to_json())
round_trip ==
  /\ call = NoCall
  /\ \E e \in Events :
       call' = [ fn |-> "round_trip", args |-> e, result |-> from_json(to_json(e)) ]
  /\ UNCHANGED agentVars

NextEvents ==
  \/ call_to_json
  \/ call_from_json
  \/ round_trip

SpecEvents == InitStatus /\ [][NextEvents]_vars

\* C16, as the spec states it: from_json(e.to_json()) equals e on all five
\* fields, for every event e.
C16_RoundTripOfEveryEvent ==
  call.fn = "round_trip" => ( call.result.exc = "none" /\ call.result.event = call.args )

\* Is every value of the payload one that JSON has a form of its own for?
\* (a tuple has none: it is written as an array and read back as a list)
JsonPayload(p) ==
  \A k \in DOMAIN p : p[k].t # "tuple"

\* C16, amended: from_json(e.to_json()) equals e on all five fields for every
\* event e whose payload holds strings, numbers, None and lists only.
C16_RoundTripOfJsonPayload ==
  ( call.fn = "round_trip" /\ JsonPayload(call.args.payload) )
    => ( call.result.exc = "none" /\ call.result.event = call.args )

\* an event without issue number and with a list in its payload came back
C16_ListPayloadCameBack ==
  /\ call.fn = "round_trip"
  /\ call.args.issue_number = PyNone
  /\ call.args.payload = [ files |-> Py("list", "", << PyStr("a.py") >>) ]
  /\ call.result.exc = "none"
  /\ call.result.event = call.args

\* C17: from_json raises, and returns no event, when the record has no field
\* event_type or when its value is no value of EventType.
C17_BadTypeRaises ==
  ( /\ call.fn = "from_json"
    /\ call.args.json
    /\ \/ "event_type" \notin DOMAIN call.args.data
       \/ ~( call.args.data["event_type"].t = "string"
             /\ call.args.data["event_type"].v \in EventTypeValues ) )
    => ( call.result.exc \in { "KeyError", "ValueError" } /\ call.result.event = NoEvent )

\* a record that is complete but for its event_type has been refused
C17_MissingTypeRefused ==
  /\ call.fn = "from_json"
  /\ call.args.json
  /\ DOMAIN call.args.data = EventFields \ { "event_type" }
  /\ call.result.exc = "KeyError"

----------------------------------------------------------------------------
(* common/mqtt_client.py : MQTTClient, with subscribers *)

\* the topics of config.topics and the functions registered as callbacks
Topics == { "github/automation/events", "github/automation/status" }
Callbacks == { "on_event", "on_status" }

busFrame ==
  << deployed, trackerVars, lifecycleVars, setVars, th, announced >>

\* MQTTClient.connect: client.connect opens a new session (the one the client
\* had is closed, and with it its subscriptions at the broker), loop_start
\* starts the network loop thread unless it is alive
connect(a) ==
  /\ a \in deployed
  /\ \E ok \in BOOLEAN :
       LET c == MQTTClient_connect(connected[a], ok)
       IN  /\ loop_running' = [ loop_running EXCEPT ![a] = @ \/ c.opened ]
           /\ session' = [ session EXCEPT ![a] = IF c.opened THEN "opening" ELSE @ ]
           /\ transport_subs' = [ transport_subs EXCEPT ![a] = IF c.opened THEN { } ELSE @ ]
           /\ call' = BusCall("connect", a, "none", c)
  /\ UNCHANGED << busFrame, connected, subscriptions, delivered, resub >>

\* MQTTClient.disconnect: loop_stop (which waits for the callback the network
\* loop thread is in), client.disconnect, connected = False
disconnect(a) ==
  /\ a \in deployed
  /\ ~resub[a].active
  /\ loop_running' = [ loop_running EXCEPT ![a] = FALSE ]
  /\ connected' = [ connected EXCEPT ![a] = FALSE ]
  /\ session' = [ session EXCEPT ![a] = "none" ]
  /\ transport_subs' = [ transport_subs EXCEPT ![a] = { } ]
  /\ call' = BusCall("disconnect", a, "none", "none")
  /\ UNCHANGED << busFrame, subscriptions, delivered, resub >>

\* MQTTClient._on_connect, its for loop, one iteration a step:
\*   for topic in self.subscriptions: self.client.subscribe(topic)
\* The first step makes the dict's iterator.  The iterator raises RuntimeError
\* when the dict has changed its size since; the exception leaves the callback.
_on_connect_loop(a) ==
  /\ resub[a].active
  /\ LET size == IF resub[a].size = 0 THEN Cardinality(DOMAIN subscriptions[a])
                                      ELSE resub[a].size
         todo == DOMAIN subscriptions[a] \ resub[a].visited
     IN  IF Cardinality(DOMAIN subscriptions[a]) # size \/ todo = { }
           THEN /\ resub' = [ resub EXCEPT ![a] = NoResub ]
                /\ UNCHANGED transport_subs
           ELSE \E topic \in todo :
                  /\ resub' = [ resub EXCEPT ![a].visited = @ \cup { topic },
                                             ![a].size = size ]
                  /\ transport_subs' =
                       [ transport_subs EXCEPT ![a] =
                           IF session[a] = "open" THEN @ \cup { topic } ELSE @ ]
  /\ UNCHANGED << busFrame, mqttVars, subscriptions, delivered, call >>

\* MQTTClient._on_disconnect, called on the network loop thread when the session
\* is lost: self.connected = False.  The network loop opens a session again.
_on_disconnect(a) ==
  /\ loop_running[a]
  /\ session[a] = "open"
  /\ ~resub[a].active
  /\ connected' = [ connected EXCEPT ![a] = FALSE ]
  /\ session' = [ session EXCEPT ![a] = "opening" ]
  /\ transport_subs' = [ transport_subs EXCEPT ![a] = { } ]
  /\ UNCHANGED << busFrame, loop_running, subscriptions, delivered, call, resub >>

\* MQTTClient._subscribe_to_topic (subscribe, subscribe_to_topic), under the lock:
\*   self.subscriptions[topic] = callback
\*   if self.connected: self.client.subscribe(topic)
_subscribe_to_topic(a, topic, callback) ==
  /\ a \in deployed
  /\ subscriptions' =
       [ subscriptions EXCEPT ![a] =
           [ tp \in (DOMAIN @) \cup { topic } |-> IF tp = topic THEN callback ELSE @[tp] ] ]
  /\ transport_subs' =
       [ transport_subs EXCEPT ![a] =
           IF connected[a] /\ session[a] = "open" THEN @ \cup { topic } ELSE @ ]
  /\ UNCHANGED << busFrame, mqttVars, delivered, call, resub >>

\* MQTTClient.unsubscribe, under the lock:
\*   if topic in self.subscriptions: del self.subscriptions[topic]
\*   if self.connected: self.client.unsubscribe(topic)
unsubscribe(a, topic) ==
  /\ a \in deployed
  /\ subscriptions' =
       [ subscriptions EXCEPT ![a] = [ tp \in (DOMAIN @) \ { topic } |-> @[tp] ] ]
  /\ transport_subs' =
       [ transport_subs EXCEPT ![a] =
           IF connected[a] /\ session[a] = "open" THEN @ \ { topic } ELSE @ ]
  /\ UNCHANGED << busFrame, mqttVars, delivered, call, resub >>

\* MQTTClient.publish(event): publish on config.topics["events"]
publish(a, event_type) ==
  /\ a \in deployed
  /\ \E outcome \in PublishOutcomes :
       call' = BusCall("publish", a, event_type,
                       MQTTClient_publish(connected[a], session[a] = "open", outcome))
  /\ UNCHANGED << busFrame, mqttVars, subscriptions, delivered, transport_subs, resub >>

\* MQTTClient.publish_to_topic(topic, event)
publish_to_topic(a, topic, event_type) ==
  /\ a \in deployed
  /\ \E outcome \in PublishOutcomes :
       call' = BusCall("publish_to_topic", a, << topic, event_type >>,
                       MQTTClient_publish(connected[a], session[a] = "open", outcome))
  /\ UNCHANGED << busFrame, mqttVars, subscriptions, delivered, transport_subs, resub >>

\* the payloads of the messages on the bus: a serialized event, the same
\* without its event_type, text that is no JSON
BusEvent ==
  [ event_type |-> "QA_FAILED", agent_name |-> PyStr("qa"),
    timestamp |-> PyStr("2026-01-01T00:00:00"), issue_number |-> PyInt("1"),
    payload |-> << >> ]

BusTexts ==
  { to_json(BusEvent), Without(to_json(BusEvent), { "event_type" }),
    [ json |-> FALSE, data |-> << >> ] }

\* the messages that arrive, all on the events topic: msg.topic, and
\* msg.payload as bytes that are UTF-8 or not
Messages ==
  [ topic : { "github/automation/events" }, utf8 : { TRUE }, text : BusTexts ]
    \cup [ topic : { "github/automation/events" }, utf8 : { FALSE },
           text : { to_json(BusEvent) } ]

\* MQTTClient._on_message, called on the network loop thread for a message that
\* arrives in the open session:
\*   try:
\*       payload = msg.payload.decode('utf-8')
\*       if topic in self.subscriptions:
\*           try:
\*               event = AgentEvent.from_json(payload)
\*               self.subscriptions[topic](event)
\*           except Exception as e: logger.error(...)
\*   except Exception as e: logger.error(...)
\* The entry appended to delivered tells what was done with the message.
_on_message(a, msg) ==
  /\ a \in deployed
  /\ loop_running[a]
  /\ session[a] = "open"
  /\ ~resub[a].active
  /\ Len(delivered[a]) < MaxMessages
  /\ LET subscribed == msg.utf8 /\ msg.topic \in DOMAIN subscriptions[a]
         parsed == IF subscribed THEN from_json(msg.text) ELSE Raised("none")
         invoked == subscribed /\ parsed.exc = "none"
     IN  \E callback_raises \in BOOLEAN :
           delivered' =
             [ delivered EXCEPT ![a] =
                 Append(@, [ msg |-> msg,
                             callback |-> IF invoked THEN subscriptions[a][msg.topic]
                                                     ELSE "none",
                             event |-> parsed.event,
                             logged |-> CASE ~msg.utf8 -> "UnicodeDecodeError"
                                          [] subscribed /\ ~invoked -> parsed.exc
                                          [] invoked /\ callback_raises -> "Exception"
                                          [] OTHER -> "none",
                             raised |-> "none" ]) ]
  /\ UNCHANGED << busFrame, mqttVars, subscriptions, call, transport_subs, resub >>

\* SpecBus: the bus client of one agent (MQTTClient is the same class for the
\* four), its owner connecting, disconnecting, subscribing and unsubscribing at
\* will, and messages of every kind arriving.
InitBus ==
  /\ deployed = { "backend" }
  /\ labels = [ n \in Issues |-> { } ]
  /\ InitTracker
  /\ InitAgents

NextBus ==
  \/ \E a \in Agents : connect(a)
  \/ \E a \in Agents : disconnect(a)
  \/ \E a \in Agents : _on_connect(a)
  \/ \E a \in Agents : _on_connect_loop(a)
  \/ \E a \in Agents, topic \in Topics, callback \in Callbacks :
       _subscribe_to_topic(a, topic, callback)
  \/ \E a \in Agents, topic \in Topics : unsubscribe(a, topic)
  \/ \E a \in Agents, msg \in Messages : _on_message(a, msg)

SpecBus == InitBus /\ [][NextBus]_vars

\* SpecConn: the same client seen from the connection: its owner also
\* publishes, the session can be lost, one kind of message arrives.
NextConn ==
  \/ \E a \in Agents : connect(a)
  \/ \E a \in Agents : disconnect(a)
  \/ \E a \in Agents : _on_connect(a)
  \/ \E a \in Agents : _on_connect_loop(a)
  \/ \E a \in Agents : _on_disconnect(a)
  \/ \E a \in Agents, topic \in Topics : _subscribe_to_topic(a, topic, "on_event")
  \/ \E a \in Agents, topic \in Topics : unsubscribe(a, topic)
  \/ \E a \in Agents : publish(a, BusEvent.event_type)
  \/ \E a \in Agents : publish_to_topic(a, "github/automation/status", BusEvent.event_type)
  \/ \E a \in Agents :
       _on_message(a, [ topic |-> "github/automation/events", utf8 |-> TRUE,
                        text |-> to_json(BusEvent) ])

SpecConn == InitBus /\ [][NextConn]_vars

\* Is the payload of the message a serialized event?
ValidMessage(msg) ==
  msg.utf8 /\ msg.text = to_json(BusEvent)

\* C18: for a message whose payload is no serialized event no callback is
\* invoked and no exception leaves _on_message; a message that is one, arriving
\* later on the same topic, is handed to the topic's callback.
C18_InvalidDroppedValidDelivered ==
  \A a \in Agents : \A k \in 1..Len(delivered[a]) :
    LET x == delivered[a][k]
    IN  /\ x.raised = "none"
        /\ ~ValidMessage(x.msg) => x.callback = "none"
        /\ ( ValidMessage(x.msg) /\ x.callback # "none" ) => x.event = BusEvent
        /\ ( ValidMessage(x.msg) /\ x.callback = "none" ) => x.logged = "none"

\* on one topic a message without event_type was dropped, and the serialized
\* event that came after it reached the callback
C18_DeliveredAfterDropped ==
  \E a \in Agents :
    /\ Len(delivered[a]) = 2
    /\ delivered[a][1].msg.topic = delivered[a][2].msg.topic
    /\ delivered[a][1].msg.utf8
    /\ delivered[a][1].msg.text = Without(to_json(BusEvent), { "event_type" })
    /\ delivered[a][1].callback = "none"
    /\ delivered[a][1].logged = "KeyError"
    /\ delivered[a][2].callback = "on_event"
    /\ delivered[a][2].event = BusEvent

----------------------------------------------------------------------------
(* the polling thread after a failed item *)

\* C19: an exception raised while an item is processed does not end the polling
\* thread: the thread that holds it goes on with the items the poll returned,
\* and a polling thread ends only when running is False or the stop event is
\* set.
C19_ExceptionDoesNotEndPolling ==
  [][ \A a \in Agents, t \in Slots :
        /\ ( Th(a, t).pc = "except" /\ th'[<< a, t >>] # Th(a, t) )
             => /\ th'[<< a, t >>].pc # "none"
                /\ th'[<< a, t >>].issues = Th(a, t).issues
                /\ ~InTry(Th(a, t)) => th'[<< a, t >>].pc = "iter"
        /\ ( Alive(a, t) /\ th'[<< a, t >>].pc = "none" )
             => ( ~running[a] \/ stop_event[a] ) ]_vars

\* the attempt on issue 2 raised in the only thread of the agent, and the same
\* thread, in the same poll cycle, is processing issue 1
C19_NextItemAfterException ==
  \E a \in { "frontend", "backend", "qa" } :
    /\ running[a] /\ ~stop_event[a]
    /\ 2 \in processing_issues[a]
    /\ Th(a, 1).issue = 1 /\ InProcessIssue(Th(a, 1))
    /\ Th(a, 1).issues = << >>
    /\ \A t \in Slots \ { 1 } : ~Alive(a, t)
    /\ agent_comments = [ n \in Issues |-> 0 ]

\* C20: an item whose attempt failed on a tracker error is processed again by a
\* later poll cycle: the for loop of _process_issues passes over an item the
\* poll returned only while a thread of the agent is occupied with that item.
C20_FailedItemProcessedAgain ==
  [][ \A a \in { "frontend", "backend", "qa" }, t \in Slots :
        ( /\ Th(a, t).pc = "iter"
          /\ Th(a, t).issues # << >>
          /\ th'[<< a, t >>] = [ Th(a, t) EXCEPT !.issues = Tail(@) ] )
          => \E u \in Slots : Th(a, u).issue = Head(Th(a, t).issues) ]_vars

----------------------------------------------------------------------------
(* the roles and the items they take up *)

\* the status whose label the role's poll asks for
ready_status(a) == label_to_status(poll_label(a))

\* C22: a role starts processing an item (here: makes its generation calls,
\* the first thing QAAgent._process_issue and _analyze_and_ask do) only when the
\* item's status on the tracker at that moment is the role's ready status.
C22_ProcessingBeginsOnReadyItem ==
  [][ \A a \in Agents, t \in Slots :
        LET r == Th(a, t)
            after == th'[<< a, t >>]
        IN  ( \/ a = "qa" /\ r.pc = "enter" /\ after # r
              \/ a = "requirements" /\ r.pc = "analyze"
                   /\ after.pc \in { "post_questions", "rfd_update" } )
              => CurrentStatus(r.issue) = ready_status(a) ]_vars

----------------------------------------------------------------------------
(* start() and stop() *)

\* C23: a start() of a stopped agent has connected the bus and has had its
\* AGENT_STARTED event sent (publish returned True) when it launches the polling
\* thread, that is before the thread's first tracker request.
C23_StartedEventSentBeforePolling ==
  [][ \A a \in Agents :
        ( /\ ~running[a]
          /\ \E t \in Slots : ~Alive(a, t) /\ th'[<< a, t >>].pc = "loop" )
          => /\ loop_running'[a]
             /\ call'.fn = "publish"
             /\ call'.args = << a, "AGENT_STARTED" >>
             /\ call'.result.ret ]_vars

\* C24: a polling thread that stop() has signalled begins no new poll cycle and
\* ends, whatever is called afterwards: while the thread lives the stop signal
\* stays set, and the thread does not go to the tracker query of a new cycle.
C24_SignalledTaskBeginsNoCycle ==
  [][ \A a \in Agents, t \in Slots :
        ( Alive(a, t) /\ stop_event[a] /\ th'[<< a, t >>].pc # "none" )
          => /\ stop_event'[a]
             /\ th'[<< a, t >>].pc = "poll" => Th(a, t).pc = "poll" ]_vars

----------------------------------------------------------------------------
(* the bus client: connection, publishing, subscriptions *)

\* C25: from disconnect() to the next established connection (self.connected is
\* False all that time) publish and publish_to_topic return False and hand
\* nothing to the transport, and no callback of a subscriber is invoked.
C25_NothingSentWhileDisconnected ==
  [][ \A a \in Agents :
        /\ ( /\ call'.fn \in { "publish", "publish_to_topic" }
             /\ call'.args[1] = a
             /\ ~call'.result.flag )
             => ( ~call'.result.ret /\ ~call'.result.handed )
        /\ ~connected[a] => delivered'[a] = delivered[a] ]_vars

\* after a disconnect() that followed a delivery, a publish_to_topic has
\* returned False
C25_PublishAfterDisconnect ==
  \E a \in Agents :
    /\ call.fn = "publish_to_topic"
    /\ call.args[1] = a
    /\ ~call.result.flag /\ ~call.result.ret
    /\ session[a] = "none" /\ ~loop_running[a]
    /\ Len(delivered[a]) = 1
    /\ DOMAIN subscriptions[a] # { }

\* C26: publish, publish_to_topic and connect raise nothing into their caller,
\* and return True only when the transport took the message, or opened the
\* session: every error comes back as False.
C26_BusCallsReturnFalseOnError ==
  call.fn \in { "publish", "publish_to_topic", "connect" }
    => /\ call.result.raised = "none"
       /\ call.result.ret \in BOOLEAN
       /\ ( call.fn = "connect" /\ call.result.ret ) => call.result.opened
       /\ ( call.fn # "connect" /\ call.result.ret )
            => ( call.result.flag /\ call.result.handed )

\* a publish on a connected client that the transport did not take
C26_TransportErrorWhileConnected ==
  /\ call.fn = "publish"
  /\ call.result.flag /\ call.result.handed /\ ~call.result.ret
  /\ session[call.args[1]] = "open"

C28_ConnectOnConnectedIsNoOp ==
  ( call.fn = "connect" /\ call.result.flag ) => ~call.result.opened

\* C29: once the client is connected and the connection callback is over, every
\* topic in the subscription table is subscribed with the broker.
C29_RegisteredTopicsSubscribed ==
  \A a \in Agents :
    ( connected[a] /\ session[a] = "open" /\ ~resub[a].active )
      => DOMAIN subscriptions[a] \subseteq transport_subs[a]

\* C30: every callback registered for a topic gets each valid message of the
\* topic once, in order of arrival, also when several callbacks have been
\* registered for one topic: a valid message on a subscribed topic is handed to
\* the topic's callback in the step it arrives in, and a callback stays
\* registered for its topic until the topic is unsubscribed.
C30_EveryRegisteredCallbackInvoked ==
  [][ \A a \in Agents :
        /\ delivered'[a] # delivered[a]
             => LET x == delivered'[a][Len(delivered'[a])]
                IN  /\ delivered'[a] = Append(delivered[a], x)
                    /\ ( ValidMessage(x.msg) /\ x.msg.topic \in DOMAIN subscriptions[a] )
                         => x.callback = subscriptions[a][x.msg.topic]
        /\ \A topic \in DOMAIN subscriptions[a] \cap DOMAIN subscriptions'[a] :
             subscriptions'[a][topic] = subscriptions[a][topic] ]_vars

----------------------------------------------------------------------------
(* The end-to-end scenarios of the roles *)

\* the events of a type that the threads of agent a have handed to publish for
\* item n, in the state after the step
events_for(a, n, event_type) ==
  { i \in 1..Len(announced'[a]) :
      /\ announced'[a][i].event.event_type = event_type
      /\ announced'[a][i].event.issue_number = n }

\* the step ends an attempt of a thread of agent a that no failed call of the
\* tracker or of the generation service has cut short
attempt_ends(a, t) ==
  /\ Th(a, t).issue # 0
  /\ th'[<< a, t >>].pc = "iter"
  /\ Th(a, t).exc \notin TrackerErrors \cup { "Exception" }

\* C31: when the Requirements agent has analyzed an item without comments, has
\* found that clarification is needed and has posted its questions, the item
\* carries waiting_for_clarification and no other status label at the end of
\* the attempt, and one STATUS_CHANGED event has been published for it.
C31_ClarificationScenario ==
  [][ \A t \in Slots :
        ( attempt_ends("requirements", t) /\ Th("requirements", t).site = "wfc" )
          => LET n == Th("requirements", t).issue
             IN  /\ labels'[n] \cap StatusLabelNames = { "waiting_for_clarification" }
                 /\ Cardinality(events_for("requirements", n, "STATUS_CHANGED")) = 1 ]_vars

\* C32: when the Frontend agent has processed an item labeled ready_for_dev and
\* generation has succeeded (no call failed during the attempt), the item is
\* labeled ready_for_qa and no longer ready_for_dev at the end of the attempt,
\* and a CODE_GENERATED event (its file list is that of _parse_code_response,
\* which is never empty) has been published for it.
C32_FrontendScenario ==
  [][ \A t \in Slots :
        attempt_ends("frontend", t)
          => LET n == Th("frontend", t).issue
             IN  /\ "ready_for_qa" \in labels'[n]
                 /\ "ready_for_dev" \notin labels'[n]
                 /\ events_for("frontend", n, "CODE_GENERATED") # { } ]_vars

\* C33: when the QA agent has processed an item labeled ready_for_qa and its
\* checks have failed, the item is labeled in_progress and no longer
\* ready_for_qa at the end of the attempt, one feedback comment has been added
\* and one QA_FAILED event has been published (the pull request belongs to the
\* other branch, which the attempt does not enter).
C33_QAFailedScenario ==
  [][ \A t \in Slots :
        ( /\ attempt_ends("qa", t)
          /\ Th("qa", t).site = "qa_fail" \/ Th("qa", t).pc = "qa_feedback" )
          => LET n == Th("qa", t).issue
             IN  /\ "in_progress" \in labels'[n]
                 /\ "ready_for_qa" \notin labels'[n]
                 /\ agent_comments'[n] = 1
                 /\ Cardinality(events_for("qa", n, "QA_FAILED")) = 1 ]_vars

\* C34: processing is idempotent on retry: an attempt that failed part-way and
\* the later attempts on the item leave on the tracker what one successful
\* attempt leaves; in particular the Requirements agent posts its clarification
\* questions on an item only if it has not posted them before.
C34_QuestionsPostedOnce ==
  [][ \A t \in Slots :
        LET r == Th("requirements", t)
        IN  ( /\ r.pc = "post_questions" /\ r.site = "ask"
              /\ agent_comments'[r.issue] # agent_comments[r.issue] )
              => agent_comments[r.issue] = 0 ]_vars

----------------------------------------------------------------------------
(* SpecNew: the Requirements agent alone, started once by its main(), its  *)
(* polling thread running for ever, on a tracker where people comment      *)

\* the statements a polling thread of the Requirements agent executes
RequirementsStep(t) ==
  \/ _poll_loop("requirements", t)
  \/ _process_issues("requirements", t)
  \/ _analyze_issue("requirements", t)
  \/ _analyze_and_ask("requirements", t)
  \/ _check_responses("requirements", t)
  \/ _mark_ready_for_dev("requirements", t)
  \/ set_status_label("requirements", t)

InitNew ==
  /\ deployed = { "requirements" }
  /\ labels \in [ Issues -> { { }, { labels_new } } ]
  /\ InitTracker
  /\ InitAgents

NextNew ==
  \/ main("requirements")
  \/ \E t \in Slots : RequirementsStep(t)
  \/ \E n \in Issues : user_comment(n)

\* main() runs, and a thread that can take a step takes one
SpecNew ==
  /\ InitNew
  /\ [][NextNew]_vars
  /\ WF_vars(main("requirements"))
  /\ \A t \in Slots : WF_vars(RequirementsStep(t))

\* a step in which a call of the tracker or of the generation service fails:
\* get_issues in a poll, or a call that raises inside an attempt
failed_call ==
  \E a \in Agents, t \in Slots :
    \/ Th(a, t).pc = "poll" /\ th'[<< a, t >>].pc = "loop"
    \/ /\ Th(a, t).pc # "except" /\ th'[<< a, t >>].pc = "except"
       /\ th'[<< a, t >>].exc \in TrackerErrors \cup { "Exception" }

\* a thread is about to write a comment or a body update that the bounds of
\* the model do not leave room for
at_bound ==
  \E a \in Agents, t \in Slots :
    \/ Th(a, t).pc = "post_questions" /\ agent_comments[Th(a, t).issue] >= MaxQuestions
    \/ Th(a, t).pc = "qa_feedback" /\ agent_comments[Th(a, t).issue] >= MaxWrites
    \/ Th(a, t).pc = "rfd_update" /\ issue_updates[Th(a, t).issue] >= MaxWrites

\* C35: while the calls of the tracker and of the generation service succeed
\* (from some point on none fails), every open item that carries the
\* Requirements agent's 'new' label is eventually moved out of NEW, to
\* waiting_for_clarification or ready_for_dev, also when it has a comment of
\* another user when it is first polled.
C35_NewItemEventuallyMoved ==
  ( <>[][~failed_call]_vars /\ []<>~at_bound )
    => \A n \in Issues :
         ( labels_new \in labels[n] )
           ~> ( "waiting_for_clarification" \in labels[n] \/ "ready_for_dev" \in labels[n] )

\* C36: when the QA agent's checks have passed for an item, the attempt runs to
\* its end: it ends at its last statements (the QA_PASSED publish and the pull
\* request attempt), the item is labeled done, a QA_PASSED event has been
\* published and the item is no longer in the agent's _processing_issues.
C36_QAPassedRunsToEnd ==
  [][ \A t \in Slots :
        ( /\ attempt_ends("qa", t)
          /\ Th("qa", t).site = "qa_done" \/ Th("qa", t).pc = "qa_add_done" )
          => LET n == Th("qa", t).issue
             IN  /\ Th("qa", t).pc = "qa_add_done"
                 /\ "done" \in labels'[n]
                 /\ events_for("qa", n, "QA_PASSED") # { }
                 /\ n \notin processing_issues'["qa"] ]_vars

\* C37: for an item on which the Requirements agent has asked its questions
\* and a user has commented since, the attempt that looks at the responses
\* either moves the item to ready_for_dev, publishes STATUS_CHANGED and drops
\* the item from _clarification_issues (no further clarification needed), or
\* leaves it in waiting_for_clarification and tracked (more is needed).
C37_ResponseMovesItemOn ==
  [][ \A t \in Slots :
        LET r == Th("requirements", t)
            n == r.issue
        IN  ( /\ attempt_ends("requirements", t)
              /\ r.pc = "check_responses" \/ r.site \in { "rfd_resp", "followup" }
              /\ agent_comments[n] >= 1 /\ user_comments[n] )
              => \/ /\ "ready_for_dev" \in labels'[n]
                    /\ events_for("requirements", n, "STATUS_CHANGED") # { }
                    /\ n \notin clarification_issues'["requirements"]
                 \/ /\ "waiting_for_clarification" \in labels'[n]
                    /\ n \in clarification_issues'["requirements"] ]_vars

----------------------------------------------------------------------------
(* SpecDev: the Frontend, Backend and QA agents, each started once by its  *)
(* main(), their polling threads running for ever, on a tracker whose      *)
(* items are in development, wait for development or wait for QA           *)

DevAgents == { "frontend", "backend" }

\* the statements a polling thread of a development agent or of the QA agent
\* executes
DevStep(a, t) ==
  \/ _poll_loop(a, t)
  \/ _process_issues(a, t)
  \/ _process_issue(a, t)
  \/ QAAgent_process_issue(a, t)
  \/ set_status_label(a, t)

InitDev ==
  /\ deployed = DevAgents \cup { "qa" }
  /\ labels \in [ Issues -> { { "in_progress" }, { "ready_for_dev" }, { "ready_for_qa" } } ]
  /\ InitTracker
  /\ InitAgents

NextDev ==
  \/ \E a \in DevAgents \cup { "qa" } : main(a)
  \/ \E a \in DevAgents \cup { "qa" }, t \in Slots : DevStep(a, t)

\* every main() runs, and a thread that can take a step takes one
SpecDev ==
  /\ InitDev
  /\ [][NextDev]_vars
  /\ \A a \in DevAgents \cup { "qa" } : WF_vars(main(a))
  /\ \A a \in DevAgents \cup { "qa" }, t \in Slots : WF_vars(DevStep(a, t))

\* a polling thread of a development agent has taken up item n
taken_up(n) ==
  \E a \in DevAgents, t \in Slots : Alive(a, t) /\ Th(a, t).issue = n

\* C38: while all agents run and the calls of the tracker and of the
\* generation service succeed, an item in in_progress (where a failed QA run
\* returns it) is eventually processed again by the Frontend or the Backend
\* agent; no item stays in in_progress for ever.
C38_InProgressItemTakenUpAgain ==
  ( <>[][~failed_call]_vars /\ []<>~at_bound )
    => \A n \in Issues :
         ( "in_progress" \in labels[n] )
           ~> ( taken_up(n) \/ "in_progress" \notin labels[n] )

\* C40: an event that announces a completed step (CODE_GENERATED, QA_PASSED,
\* QA_FAILED, STATUS_CHANGED with action waiting_for_clarification or
\* ready_for_dev) is published only by a thread whose set_status_label call
\* has returned without error: in the step in which the last statement of the
\* call succeeds or in a later statement of the same attempt; a step that
\* raises out of set_status_label, and the handler that follows it, publish
\* no such event.
C40_AnnouncedOnlyAfterStatusWrite ==
  [][ \A a \in Agents :
        /\ announced'[a] # announced[a]
             => \E t \in Slots :
                  /\ th'[<< a, t >>] # Th(a, t)
                  /\ Th(a, t).pc \in { "ssl_add", "rfd_add", "qa_add_done", "qa_feedback" }
                  /\ Th(a, t).exc = "none"
                  /\ th'[<< a, t >>].pc # "except"
        /\ \A t \in Slots :
             ( \/ Th(a, t).pc \in SslPcs /\ th'[<< a, t >>].pc = "except"
               \/ Th(a, t).pc = "except" /\ th'[<< a, t >>] # Th(a, t) )
               => announced'[a] = announced[a] ]_vars

\* an attempt's status label write has failed, and no event announces a step
\* for its item
C40_WriteFailedNothingAnnounced ==
  \E a \in Agents, t \in Slots :
    /\ Th(a, t).pc = "except"
    /\ Th(a, t).exc = "StatusManager.STATUS_LABELS"
    /\ Th(a, t).issue # 0
    /\ \A i \in 1..Len(announced[a]) : announced[a][i].event.issue_number # Th(a, t).issue

====
